---- MODULE Spec2Model ----
(***************************************************************************)
(* Transactional core of the perfume-shop backend: purchases with their    *)
(* lines, returns and product stock (purchases/), sales with their totals  *)
(* (Sales/), and the supplier balance ledger (supplier/).                  *)
(*                                                                         *)
(* Representation of numbers.  The code works with decimal.Decimal, which  *)
(* is exact for the magnitudes used here; the database columns round.      *)
(*   quantity           hundredths of a unit   (DecimalField, 2 places)    *)
(*   rate, stored money cents                  (DecimalField, 2 places)    *)
(*   money in memory    millionths ("micro")   (exact, before the column   *)
(*                                              rounds it to cents)        *)
(*   tax rates, card discount                  whole percents              *)
(*   Product.stock      whole units            (PositiveIntegerField)      *)
(* The in-memory value of product.stock after "stock += quantity" is a     *)
(* Decimal and is kept in hundredths; writing it truncates (int()).        *)
(***************************************************************************)
EXTENDS Integers, Sequences, FiniteSets, TLC

(***************************************************************************)
(* Bounds of the model.                                                    *)
(***************************************************************************)
NumProducts  == 2
NumStores    == 1
MaxPurchases == 2
MaxLines     == 2
MaxQtySteps  == 2
QtyStep      == 50
MaxStock     == 2
InitialStock == 0
MaxSales     == 2
MaxSuppliers == 2
MaxTransactions == 2
CardDiscount == 10
OpeningStep  == 100
DebitStep    == 50
CreditStep   == 30
NumWorkers   == 2
NumDocStores == 2
MaxDocLines  == 1
MaxNumberedSales == 3
MaxConcurrentPurchases == 3

QtyScale == 100
MaxBalance == 99999999

Products   == 1..NumProducts
Stores     == 1..NumStores
Quantities == {QtyStep * k : k \in 1..MaxQtySteps}
PurchaseRates == {100}

(***************************************************************************)
(* Master data (read-only for the core): the tax set-up of each product.   *)
(* Even products are EXCLUSIVE, odd ones INCLUSIVE; every product has a    *)
(* tax1 of 5 percent, products above 2 also a tax2 of 12 percent.          *)
(***************************************************************************)
ProductTaxType(p)  == IF p % 2 = 0 THEN "EXCLUSIVE" ELSE "INCLUSIVE"
ProductTax1Rate(p) == 5
ProductTax2Rate(p) == IF p > 2 THEN 12 ELSE 0

VARIABLES
    stock,           \* Product.stock of every product, as stored
    purchases,       \* id -> Purchase row with its PurchaseItem rows (pk order)
    nextPurchaseId,  \* next primary key of Purchase
    request,         \* history: the request handled last and its response status
    stockBeforeCreate, \* history: stock before the last request, if it created
                     \* a purchase or a return; the initial stock otherwise
    sales,           \* id -> Sale row with its SaleItem rows
    nextSaleId,      \* next primary key of Sale
    suppliers,       \* id -> Supplier row
    transactions,    \* id -> SupplierTransaction row
    nextTransactionId, \* next primary key of SupplierTransaction
    inflight         \* worker -> the request it is in the middle of

NoRequest == [op |-> "none", store |-> 0, id |-> 0, ref |-> 0, over |-> FALSE, status |-> 0]

(***************************************************************************)
(* Conversions done by the database layer.                                 *)
(***************************************************************************)
\* IntegerField.get_prep_value: int(value), truncation toward zero.
ToInt(x) == IF x >= 0 THEN x \div QtyScale ELSE -((-x) \div QtyScale)

\* numeric(n,2) column of PostgreSQL: micro -> cents, ties away from zero.
RoundCents(m) == IF m >= 0 THEN (m + 5000) \div 10000
                           ELSE -(((-m) + 5000) \div 10000)

RECURSIVE SumSeq(_)
SumSeq(s) == IF s = <<>> THEN 0 ELSE Head(s) + SumSeq(Tail(s))

(***************************************************************************)
(* PurchaseItem.save, lines 92-97: amount and tax_amount of a line.        *)
(***************************************************************************)
ItemTaxMicro(quantity, rate, tax_type, tax1_rate, tax2_rate) ==
    IF tax_type = "EXCLUSIVE"
    THEN quantity * rate * tax1_rate + quantity * rate * tax2_rate
    ELSE 0

ItemAmountMicro(quantity, rate, tax_type, tax1_rate, tax2_rate) ==
    quantity * rate * 100
    + ItemTaxMicro(quantity, rate, tax_type, tax1_rate, tax2_rate)

\* The row PurchaseItem.objects.create(...) inserts for a request line.
PurchaseItemRow(line) ==
    LET p == line.product IN
    [ product   |-> p,
      quantity  |-> line.quantity,
      rate      |-> line.rate,
      tax_type  |-> ProductTaxType(p),
      tax1_rate |-> ProductTax1Rate(p),
      tax2_rate |-> ProductTax2Rate(p),
      tax_amount |-> RoundCents(ItemTaxMicro(line.quantity, line.rate,
                        ProductTaxType(p), ProductTax1Rate(p), ProductTax2Rate(p))),
      amount    |-> RoundCents(ItemAmountMicro(line.quantity, line.rate,
                        ProductTaxType(p), ProductTax1Rate(p), ProductTax2Rate(p))),
      returned_quantity |-> 0 ]

\* total_amount accumulated over the request lines (exact), then stored.
PurchaseTotal(lines) ==
    RoundCents(SumSeq([i \in 1..Len(lines) |->
        ItemAmountMicro(lines[i].quantity, lines[i].rate,
                        ProductTaxType(lines[i].product),
                        ProductTax1Rate(lines[i].product),
                        ProductTax2Rate(lines[i].product))]))

(***************************************************************************)
(* A transaction works on db = [stock, purchases, ok]; ok = FALSE records  *)
(* that a statement raised, which rolls the whole atomic block back.       *)
(***************************************************************************)
\* Variant of product.save() on a column without the CHECK (stock >= 0).
ProductSave_Unchecked(db, p, mem) == [db EXCEPT !.stock[p] = ToInt(mem)]

\* product.save() with the in-memory stock mem (hundredths): the column is
\* a PositiveIntegerField, so a negative value violates its CHECK.
ProductSave(db, p, mem) ==
    IF ToInt(mem) < 0
    THEN [db EXCEPT !.ok = FALSE]
    ELSE [db EXCEPT !.stock[p] = ToInt(mem)]

\* Index of the first line (lowest pk) of items for product p, 0 if none:
\* items.filter(product=p).first()
FirstItem(items, p) ==
    IF \E i \in 1..Len(items) : items[i].product = p
    THEN CHOOSE i \in 1..Len(items) :
            /\ items[i].product = p
            /\ \A j \in 1..(i-1) : items[j].product # p
    ELSE 0

(***************************************************************************)
(* Purchase.save, lines 49-65: the invoice number of a new purchase.  The  *)
(* number stands for the string prefix + zero-padded number; below 1000    *)
(* the string maximum is the numeric maximum.                              *)
(***************************************************************************)
InvoicePrefix(is_return) == IF is_return THEN "PR" ELSE "PE"

NextInvoiceNum(rows, store, is_return) ==
    LET scope == {i \in DOMAIN rows :
                    rows[i].store = store /\ rows[i].is_return = is_return}
        nums  == {rows[i].invoice_no[2] : i \in scope}
    IN IF scope = {} THEN 1
       ELSE (CHOOSE n \in nums : \A m \in nums : m <= n) + 1

\* Variant without the unique constraint on invoice_no.
InvoiceTaken_Never(rows, inv) == FALSE

\* unique=True on invoice_no
InvoiceTaken(rows, inv) == \E i \in DOMAIN rows : rows[i].invoice_no = inv

\* Purchase.save, lines 67-70: saving a return marks its original returned.
MarkOriginal(rows, is_return, ref) ==
    IF is_return /\ ref # 0 /\ ref \in DOMAIN rows /\ rows[ref].status # "returned"
    THEN [rows EXCEPT ![ref].status = "returned"]
    ELSE rows

\* Purchase.objects.create(...), the part of Purchase.save after the number
\* was generated: lines 67-72 and the INSERT of the row with invoice_no inv.
PurchaseInsertAs(db, id, store, is_return, ref, inv) ==
    LET rows1 == MarkOriginal(db.purchases, is_return, ref)
        row   == [ is_return |-> is_return, return_reference |-> ref,
                   status |-> "completed", store |-> store,
                   invoice_no |-> inv, total_amount |-> 0, items |-> <<>> ]
    IN IF InvoiceTaken(db.purchases, inv)
       THEN [db EXCEPT !.ok = FALSE]
       ELSE [db EXCEPT !.purchases =
                [i \in DOMAIN rows1 \cup {id} |-> IF i = id THEN row ELSE rows1[i]]]

\* Purchase.objects.create(...): Purchase.save generates the number from the
\* rows it reads and inserts.
PurchaseInsert(db, id, store, is_return, ref) ==
    PurchaseInsertAs(db, id, store, is_return, ref,
        <<InvoicePrefix(is_return), NextInvoiceNum(db.purchases, store, is_return)>>)

(***************************************************************************)
(* One pass of the line loop of PurchaseSerializer.create / update and of  *)
(* PurchaseReturnSerializer.create.  Every request line carries its own    *)
(* Product instance, loaded while the request was validated (stock0).      *)
(*   PurchaseItem.objects.create -> PurchaseItem.save (new row): moves     *)
(*       product.stock by the quantity and saves the product,              *)
(*   then the serializer moves product.stock again and saves again.        *)
(***************************************************************************)
PurchaseItem_save(db, id, line, mem, is_return) ==
    LET mem1 == IF is_return THEN mem - line.quantity ELSE mem + line.quantity
        db1  == ProductSave(db, line.product, mem1)
    IN [ db  |-> [db1 EXCEPT !.purchases[id].items = Append(@, PurchaseItemRow(line))],
         mem |-> mem1 ]

SerializerLine(db, id, line, stock0, is_return) ==
    LET r    == PurchaseItem_save(db, id, line, stock0[line.product] * QtyScale, is_return)
        mem2 == IF is_return THEN r.mem - line.quantity ELSE r.mem + line.quantity
    IN ProductSave(r.db, line.product, mem2)

RECURSIVE CreateLines(_, _, _, _, _, _)
CreateLines(db, id, lines, k, stock0, is_return) ==
    IF k > Len(lines) THEN db
    ELSE CreateLines(SerializerLine(db, id, lines[k], stock0, is_return),
                     id, lines, k + 1, stock0, is_return)


(***************************************************************************)
(* PurchaseSerializer.validate: at least one line.  The field validators   *)
(* of PurchaseItemSerializer require quantity and rate >= 0.01.            *)
(***************************************************************************)
LineFieldsValid(line) == line.quantity >= 1 /\ line.rate >= 1

PurchaseSerializer_validate(lines) ==
    /\ Len(lines) > 0
    /\ \A i \in 1..Len(lines) : LineFieldsValid(lines[i])

(***************************************************************************)
(* PurchaseSerializer.create, lines 133-184.                               *)
(***************************************************************************)
\* create with the invoice number inv that Purchase.save generated and the
\* Product instances stock0 that the validation of the request loaded.
PurchaseSerializer_createWith(db, id, store, lines, inv, stock0) ==
    LET d1 == PurchaseInsertAs(db, id, store, FALSE, 0, inv)
        d2 == IF d1.ok THEN CreateLines(d1, id, lines, 1, stock0, FALSE) ELSE d1
    IN IF d2.ok
       THEN [d2 EXCEPT !.purchases[id].total_amount = PurchaseTotal(lines)]
       ELSE d2

\* A request handled alone: everything it reads is the state db.
PurchaseSerializer_create(db, id, store, lines) ==
    PurchaseSerializer_createWith(db, id, store, lines,
        <<InvoicePrefix(FALSE), NextInvoiceNum(db.purchases, store, FALSE)>>, db.stock)

(***************************************************************************)
(* PurchaseSerializer.update, lines 186-252.  instance was loaded with its *)
(* lines and their products prefetched, so the lines of one product share  *)
(* one Product object (mem); the new lines use the objects loaded by the   *)
(* validation of the request (stock0).                                     *)
(***************************************************************************)
RECURSIVE RevertItems(_, _, _, _)
RevertItems(db, inst, k, mem) ==
    IF k > Len(inst.items) THEN db
    ELSE LET item == inst.items[k]
             p    == item.product
             mem1 == [mem EXCEPT ![p] = IF inst.is_return
                                        THEN @ + item.quantity
                                        ELSE @ - item.quantity]
         IN RevertItems(ProductSave(db, p, mem1[p]), inst, k + 1, mem1)

PurchaseSerializer_update(db, id, lines) ==
    LET inst == db.purchases[id]
        mem0 == [p \in Products |-> db.stock[p] * QtyScale]
        d1   == RevertItems(db, inst, 1, mem0)
        d2   == [d1 EXCEPT !.purchases[id].items = <<>>]
        d3   == CreateLines(d2, id, lines, 1, db.stock, inst.is_return)
        d4   == [d3 EXCEPT !.purchases[id].total_amount = PurchaseTotal(lines)]
    IN [d4 EXCEPT !.purchases =
            MarkOriginal(d4.purchases, inst.is_return, inst.return_reference)]

(***************************************************************************)
(* PurchaseReturnSerializer.validate, lines 284-316.                       *)
(***************************************************************************)
\* Variant of the check: the loop finds the original line but never compares quantities.
ReturnLineValid_NoQuantityCheck(rows, ref, line) ==
    FirstItem(rows[ref].items, line.product) # 0

ReturnLineValid(rows, ref, line) ==
    LET k == FirstItem(rows[ref].items, line.product) IN
    /\ k # 0
    /\ line.quantity <= rows[ref].items[k].quantity
                        - rows[ref].items[k].returned_quantity

\* Variant of validate that accepts a return document as the original.
PurchaseReturnSerializer_validate_AnyOriginal(rows, ref, lines) ==
    /\ ref \in DOMAIN rows
    /\ Len(lines) > 0
    /\ \A i \in 1..Len(lines) : LineFieldsValid(lines[i])
    /\ \A i \in 1..Len(lines) : ReturnLineValid(rows, ref, lines[i])

PurchaseReturnSerializer_validate(rows, ref, lines) ==
    /\ ref \in DOMAIN rows
    /\ ~rows[ref].is_return
    /\ Len(lines) > 0
    /\ \A i \in 1..Len(lines) : LineFieldsValid(lines[i])
    /\ \A i \in 1..Len(lines) : ReturnLineValid(rows, ref, lines[i])

(***************************************************************************)
(* PurchaseReturnSerializer.create, lines 318-383.                         *)
(***************************************************************************)
\* original_item.returned_quantity += delta; original_item.save()
AdjustReturned(db, ref, p, delta) ==
    LET k == FirstItem(db.purchases[ref].items, p) IN
    IF k = 0 THEN db
    ELSE [db EXCEPT !.purchases[ref].items[k].returned_quantity = @ + delta]

RECURSIVE ReturnLines(_, _, _, _, _, _)
ReturnLines(db, id, ref, lines, k, stock0) ==
    IF k > Len(lines) THEN db
    ELSE LET d1 == SerializerLine(db, id, lines[k], stock0, TRUE)
             d2 == AdjustReturned(d1, ref, lines[k].product, lines[k].quantity)
         IN ReturnLines(d2, id, ref, lines, k + 1, stock0)

FullyReturned(row) ==
    \A i \in 1..Len(row.items) :
        row.items[i].quantity = row.items[i].returned_quantity

\* create with the invoice number inv that Purchase.save generated and the
\* Product instances stock0 that the validation of the request loaded; the
\* original's line is read again inside the transaction (line 368).
PurchaseReturnSerializer_createWith(db, id, store, ref, lines, inv, stock0) ==
    LET d1 == PurchaseInsertAs(db, id, store, TRUE, ref, inv)
        d2 == IF d1.ok THEN ReturnLines(d1, id, ref, lines, 1, stock0) ELSE d1
        d3 == IF d2.ok
              THEN [d2 EXCEPT !.purchases[id].total_amount = PurchaseTotal(lines)]
              ELSE d2
    IN IF d3.ok /\ FullyReturned(d3.purchases[ref])
       THEN [d3 EXCEPT !.purchases[ref].status = "returned"]
       ELSE d3

\* A request handled alone: everything it reads is the state db.
PurchaseReturnSerializer_create(db, id, store, ref, lines) ==
    PurchaseReturnSerializer_createWith(db, id, store, ref, lines,
        <<InvoicePrefix(TRUE), NextInvoiceNum(db.purchases, store, TRUE)>>, db.stock)

(***************************************************************************)
(* PurchaseViewSet.perform_destroy, lines 74-93.                           *)
(***************************************************************************)
RECURSIVE DestroyItems(_, _, _, _)
DestroyItems(db, inst, k, mem) ==
    IF k > Len(inst.items) THEN db
    ELSE LET item == inst.items[k]
             p    == item.product
             mem1 == [mem EXCEPT ![p] = IF inst.is_return
                                        THEN @ + item.quantity
                                        ELSE @ - item.quantity]
             d1   == IF inst.is_return /\ inst.return_reference # 0
                     THEN AdjustReturned(db, inst.return_reference, p, -item.quantity)
                     ELSE db
         IN DestroyItems(ProductSave(d1, p, mem1[p]), inst, k + 1, mem1)

\* instance.delete(): the lines cascade, return_reference of its returns
\* is SET_NULL.
DeleteRow(rows, id) ==
    [i \in DOMAIN rows \ {id} |->
        IF rows[i].return_reference = id
        THEN [rows[i] EXCEPT !.return_reference = 0]
        ELSE rows[i]]

perform_destroy(db, id) ==
    LET inst == db.purchases[id]
        mem0 == [p \in Products |-> db.stock[p] * QtyScale]
        d1   == DestroyItems(db, inst, 1, mem0)
    IN [d1 EXCEPT !.purchases = DeleteRow(d1.purchases, id)]


(***************************************************************************)
(* Sales.  Master data: customer 0 is no customer (walk-in), customer 1    *)
(* has no privilege card, customer 2 holds a card of CardDiscount percent. *)
(* In-memory money: q*r is in 1/10^4 ("e4"), everything else in micro.     *)
(***************************************************************************)
Customers == 0..2
HasCard(customer) == customer = 2
DiscountPercentage(customer) == CardDiscount

\* SaleSerializer.create lines 91-97 / update lines 185-190
SaleGrossE4(lines) ==
    SumSeq([i \in 1..Len(lines) |-> lines[i].quantity * lines[i].rate])

SaleDiscountMicro(lines, customer) ==
    IF customer # 0 /\ HasCard(customer)
    THEN SaleGrossE4(lines) * DiscountPercentage(customer)
    ELSE 0

SaleTotalMicro(lines, customer) ==
    SaleGrossE4(lines) * 100 - SaleDiscountMicro(lines, customer)

\* The tax loop, lines 99-106 / 192-199: product.tax1 / tax2 exist when
\* their rate is set.
SaleLineTaxMicro(line) ==
    IF ProductTaxType(line.product) = "EXCLUSIVE"
    THEN (IF ProductTax1Rate(line.product) # 0
          THEN line.quantity * line.rate * ProductTax1Rate(line.product) ELSE 0)
         + (IF ProductTax2Rate(line.product) # 0
            THEN line.quantity * line.rate * ProductTax2Rate(line.product) ELSE 0)
    ELSE 0

\* Variant of the tax loop that taxes every line, whatever its tax_type.
SaleTaxMicro_AllLines(lines) ==
    SumSeq([i \in 1..Len(lines) |->
        lines[i].quantity * lines[i].rate
            * (ProductTax1Rate(lines[i].product) + ProductTax2Rate(lines[i].product))])

SaleTaxMicro(lines) ==
    SumSeq([i \in 1..Len(lines) |-> SaleLineTaxMicro(lines[i])])

SaleFinalMicro(lines, customer) ==
    SaleTotalMicro(lines, customer) + SaleTaxMicro(lines)

\* The SaleItem rows built in lines 121-141 / 215-234 (bulk_create).  amount
\* is a numeric(20,4) column and holds q*r exactly; discount is the
\* document's discount_amount in a numeric(5,2) column.
SaleItemRows(lines, customer) ==
    [i \in 1..Len(lines) |->
        [ product   |-> lines[i].product,
          quantity  |-> lines[i].quantity,
          rate      |-> lines[i].rate,
          discount  |-> RoundCents(SaleDiscountMicro(lines, customer)),
          tax1_rate |-> ProductTax1Rate(lines[i].product),
          tax2_rate |-> ProductTax2Rate(lines[i].product),
          tax_type  |-> ProductTaxType(lines[i].product),
          amount    |-> lines[i].quantity * lines[i].rate ]]

\* numeric(5,2): absolute values from 1000.00 on overflow the column.
ItemDiscountFits(lines, customer) ==
    LET d == RoundCents(SaleDiscountMicro(lines, customer)) IN
    d < 100000 /\ d > -100000

\* Sale.save lines 43-56: the number after the digits of the invoice_no of
\* the sale with the highest id.  An invoice_no is <<prefix, number>> and
\* stands for the string prefix + zero-padded number.
LastSaleNum(rows) ==
    IF DOMAIN rows = {} THEN 0
    ELSE rows[CHOOSE i \in DOMAIN rows : \A j \in DOMAIN rows : j <= i].invoice_no[2]

\* Variant without the unique constraint.
SaleInvoiceTaken_Never(rows, inv) == FALSE

SaleInvoiceTaken(rows, inv) == \E i \in DOMAIN rows : rows[i].invoice_no = inv

\* SaleSerializer.validate lines 74-82
SaleSerializer_validate(lines, instance_is_return) ==
    /\ Len(lines) > 0
    /\ ~instance_is_return

\* SaleItemSerializer.validate_quantity / validate_rate
SaleLineValid(line) == line.quantity # 0 /\ line.rate > 0

\* SaleSerializer.create lines 84-172 with the invoice number inv that
\* Sale.save generated: [ok, rows]
SaleSerializer_createAs(rows, id, customer, lines, inv) ==
    LET row == [ invoice_no |-> inv, customer |-> customer,
                 total_amount    |-> RoundCents(SaleTotalMicro(lines, customer)),
                 discount_amount |-> RoundCents(SaleDiscountMicro(lines, customer)),
                 tax_amount      |-> RoundCents(SaleTaxMicro(lines)),
                 final_amount    |-> RoundCents(SaleFinalMicro(lines, customer)),
                 is_return |-> FALSE, original_sale |-> 0,
                 items |-> SaleItemRows(lines, customer) ]
    IN IF SaleInvoiceTaken(rows, inv) \/ ~ItemDiscountFits(lines, customer)
       THEN [ok |-> FALSE, rows |-> rows]
       ELSE [ok |-> TRUE,
             rows |-> [i \in DOMAIN rows \cup {id} |-> IF i = id THEN row ELSE rows[i]]]

\* A request handled alone: Sale.save reads the last sale from rows.
SaleSerializer_create(rows, id, customer, lines) ==
    SaleSerializer_createAs(rows, id, customer, lines, <<"SA", LastSaleNum(rows) + 1>>)

\* SaleSerializer.update lines 174-239
SaleSerializer_update(rows, id, customer, lines) ==
    IF ~ItemDiscountFits(lines, customer)
    THEN [ok |-> FALSE, rows |-> rows]
    ELSE [ok |-> TRUE,
          rows |-> [rows EXCEPT ![id] =
             [@ EXCEPT !.customer = customer,
                       !.total_amount    = RoundCents(SaleTotalMicro(lines, customer)),
                       !.discount_amount = RoundCents(SaleDiscountMicro(lines, customer)),
                       !.tax_amount      = RoundCents(SaleTaxMicro(lines)),
                       !.final_amount    = RoundCents(SaleFinalMicro(lines, customer)),
                       !.items = SaleItemRows(lines, customer)]]]

\* Variant of the return document that copies the original as it is.
Sale_return_row_NotNegated(orig, id) ==
    [ invoice_no |-> <<"RT" \o orig.invoice_no[1], orig.invoice_no[2]>>,
      customer |-> orig.customer,
      total_amount    |-> orig.total_amount,
      discount_amount |-> orig.discount_amount,
      tax_amount      |-> orig.tax_amount,
      final_amount    |-> orig.final_amount,
      is_return |-> TRUE, original_sale |-> id,
      items |-> orig.items ]

\* Sale.return_sale lines 67-96: the return document of the sale orig with
\* the key id (SaleItem.save recomputes amount = quantity * rate).
Sale_return_row(orig, id) ==
    [ invoice_no |-> <<"RT" \o orig.invoice_no[1], orig.invoice_no[2]>>,
      customer |-> orig.customer,
      total_amount    |-> -orig.total_amount,
      discount_amount |-> -orig.discount_amount,
      tax_amount      |-> -orig.tax_amount,
      final_amount    |-> -orig.final_amount,
      is_return |-> TRUE, original_sale |-> id,
      items |-> [k \in 1..Len(orig.items) |->
           [orig.items[k] EXCEPT !.quantity = -orig.items[k].quantity,
               !.amount = (-orig.items[k].quantity) * orig.items[k].rate]] ]

\* Sale.return_sale lines 61-65: the two checks before anything is written.
Sale_return_checks(rows, id) ==
    /\ ~rows[id].is_return
    /\ ~\E i \in DOMAIN rows : rows[i].original_sale = id

\* Sale.return_sale lines 68-96: the INSERTs, under unique=True on
\* invoice_no.
Sale_return_insert(rows, id, new) ==
    LET row == Sale_return_row(rows[id], id)
    IN IF SaleInvoiceTaken(rows, row.invoice_no)
       THEN [ok |-> FALSE, rows |-> rows]
       ELSE [ok |-> TRUE,
             rows |-> [i \in DOMAIN rows \cup {new} |-> IF i = new THEN row ELSE rows[i]]]

\* Sale.return_sale lines 59-98
Sale_return_sale(rows, id, new) ==
    IF Sale_return_checks(rows, id)
    THEN Sale_return_insert(rows, id, new)
    ELSE [ok |-> FALSE, rows |-> rows]

\* DELETE /sales/{id}/: the lines cascade, original_sale of its return is
\* SET_NULL.
Sale_delete(rows, id) ==
    [i \in DOMAIN rows \ {id} |->
        IF rows[i].original_sale = id
        THEN [rows[i] EXCEPT !.original_sale = 0]
        ELSE rows[i]]

(***************************************************************************)
(* Supplier ledger (supplier/models.py).  Every amount of the ledger is a   *)
(* whole number of currency units, so sums are exact.                      *)
(***************************************************************************)
\* Sum of field f over the transactions of supplier sid.
TransactionSum(txns, sid, f) ==
    SumSeq([i \in 1..MaxTransactions |->
        IF i \in DOMAIN txns /\ txns[i].supplier = sid THEN txns[i][f] ELSE 0])

\* Variant of update_balance that leaves the credits out.
Supplier_update_balance_DebitOnly(sups, txns, sid) ==
    [sups EXCEPT ![sid].current_balance =
        sups[sid].opening_balance + TransactionSum(txns, sid, "debit")]

\* Supplier.update_balance lines 35-40
Supplier_update_balance(sups, txns, sid) ==
    [sups EXCEPT ![sid].current_balance =
        sups[sid].opening_balance
        + TransactionSum(txns, sid, "debit")
        - TransactionSum(txns, sid, "credit")]

\* SupplierTransaction.save lines 67-74: transaction_no of a new row from
\* the highest existing id.
NextTransactionNo(txns) ==
    IF DOMAIN txns = {} THEN 1
    ELSE (CHOOSE i \in DOMAIN txns : \A j \in DOMAIN txns : j <= i) + 1

\* Supplier.current_balance is numeric(10,2): Supplier.save raises when the
\* value has more than eight integer digits.
BalanceFits(v) == -MaxBalance <= v /\ v <= MaxBalance

\* SupplierTransactionSerializer.validate
SupplierTransactionSerializer_validate(debit, credit) == ~(debit < 0 \/ credit < 0)

(***************************************************************************)
(* Requests.  A request carries the store of its user and up to MaxLines   *)
(* lines; the empty line list is the request validate() rejects.  The      *)
(* history variable request keeps the operation, its target (id), the      *)
(* original a return names (ref), the response status and, for a return    *)
(* request, whether one of its lines asked for more than what is left of   *)
(* the matching original line (over).                                      *)
(***************************************************************************)
PurchaseLine == [product : Products, quantity : Quantities, rate : PurchaseRates]

LineLists(S) == UNION {[1..n -> S] : n \in 0..MaxLines}

\* Some line of the return request exceeds quantity - returned_quantity of
\* the line of the original it matches.
ExceedsRemaining(rows, ref, lines) ==
    \E i \in 1..Len(lines) :
        \E k \in 1..Len(rows[ref].items) :
            /\ rows[ref].items[k].product = lines[i].product
            /\ \A j \in 1..(k-1) : rows[ref].items[j].product # lines[i].product
            /\ lines[i].quantity >
                 rows[ref].items[k].quantity - rows[ref].items[k].returned_quantity

\* The sale lines a request can carry: one unit of product 1 at 600.00, one
\* unit of product 2 at 400.00 or at 0.05, a negative unit of product 1, and
\* a line with the quantity 0 that validate_quantity rejects.
SaleLine ==
    { [product |-> 1, quantity |-> QtyScale,  rate |-> 60000],
      [product |-> 2, quantity |-> QtyScale,  rate |-> 40000],
      [product |-> 2, quantity |-> QtyScale,  rate |-> 5],
      [product |-> 1, quantity |-> -QtyScale, rate |-> 60000],
      [product |-> 1, quantity |-> 0,         rate |-> 60000] }

OpeningBalances == {0, OpeningStep}
Debits  == {-DebitStep, 0, DebitStep}
Credits == {0, CreditStep}

purchaseVars == <<stock, purchases, nextPurchaseId, stockBeforeCreate>>
saleVars     == <<sales, nextSaleId>>
supplierVars == <<suppliers, transactions, nextTransactionId>>

vars == <<stock, purchases, nextPurchaseId, request, stockBeforeCreate,
          sales, nextSaleId, suppliers, transactions, nextTransactionId,
          inflight>>

\* The server processes that handle requests side by side; a worker is idle
\* or between two statements of a request.
Workers == 1..NumWorkers
Idle == [op |-> "idle", id |-> 0]

StartStock == [p \in Products |-> InitialStock]

Init ==
    /\ stock = StartStock
    /\ purchases = <<>>
    /\ nextPurchaseId = 1
    /\ request = NoRequest
    /\ stockBeforeCreate = StartStock
    /\ sales = <<>>
    /\ nextSaleId = 1
    /\ suppliers = <<>>
    /\ transactions = <<>>
    /\ nextTransactionId = 1
    /\ inflight = [w \in Workers |-> Idle]

Database == [stock |-> stock, purchases |-> purchases, ok |-> TRUE]

WithinBounds(db) == \A p \in Products : db.stock[p] <= MaxStock

\* Variant without transaction.atomic(): what was written before a
\* statement raised stays.
Commit_NoRollback(db, req, okStatus) ==
    /\ stock' = db.stock
    /\ purchases' = db.purchases
    /\ request' = [req EXCEPT !.status = IF db.ok THEN okStatus ELSE 500]

\* The response: the atomic block commits db, or it raised and nothing of it
\* remains.
Commit(db, req, okStatus) ==
    IF db.ok
    THEN /\ WithinBounds(db)
         /\ stock' = db.stock
         /\ purchases' = db.purchases
         /\ request' = [req EXCEPT !.status = okStatus]
    ELSE /\ UNCHANGED <<stock, purchases>>
         /\ request' = [req EXCEPT !.status = 500]

Reject(req, status) ==
    /\ UNCHANGED <<stock, purchases>>
    /\ request' = [req EXCEPT !.status = status]

\* get_object() on PurchaseViewSet.get_queryset: the purchases of the
\* user's store.
Visible(id, store) == id \in DOMAIN purchases /\ purchases[id].store = store

\* POST /purchases/
PurchaseCreateIn(stores, lists) ==
    /\ UNCHANGED <<saleVars, supplierVars, inflight>>
    /\ nextPurchaseId <= MaxPurchases
    /\ \E store \in stores, lines \in lists :
        LET req == [op |-> "purchase_create", store |-> store,
                    id |-> nextPurchaseId, ref |-> 0, over |-> FALSE, status |-> 0]
            db  == PurchaseSerializer_create(Database, nextPurchaseId, store, lines)
        IN IF ~PurchaseSerializer_validate(lines)
           THEN /\ Reject(req, 400)
                /\ UNCHANGED nextPurchaseId
                /\ stockBeforeCreate' = StartStock
           ELSE /\ Commit(db, req, 201)
                /\ nextPurchaseId' = IF db.ok THEN nextPurchaseId + 1 ELSE nextPurchaseId
                /\ stockBeforeCreate' = IF db.ok THEN stock ELSE StartStock

\* PUT /purchases/{id}/
PurchaseUpdateIn(stores, lists) ==
    /\ UNCHANGED <<saleVars, supplierVars, inflight>>
    /\ \E store \in stores, id \in DOMAIN purchases, lines \in lists :
        LET req == [op |-> "purchase_update", store |-> store,
                    id |-> id, ref |-> 0, over |-> FALSE, status |-> 0]
        IN IF ~Visible(id, store) THEN Reject(req, 404)
           ELSE IF ~PurchaseSerializer_validate(lines) THEN Reject(req, 400)
           ELSE Commit(PurchaseSerializer_update(Database, id, lines), req, 200)
    /\ UNCHANGED nextPurchaseId
    /\ stockBeforeCreate' = StartStock

\* DELETE /purchases/{id}/
PurchaseDestroyIn(stores) ==
    /\ UNCHANGED <<saleVars, supplierVars, inflight>>
    /\ \E store \in stores, id \in DOMAIN purchases :
        LET req == [op |-> "purchase_destroy", store |-> store,
                    id |-> id, ref |-> 0, over |-> FALSE, status |-> 0]
        IN IF ~Visible(id, store) THEN Reject(req, 404)
           ELSE Commit(perform_destroy(Database, id), req, 204)
    /\ UNCHANGED nextPurchaseId
    /\ stockBeforeCreate' = StartStock

\* POST /purchases/create_return/
PurchaseCreateReturnIn(stores, lists) ==
    /\ UNCHANGED <<saleVars, supplierVars, inflight>>
    /\ \E store \in stores, ref \in DOMAIN purchases, lines \in lists :
        LET req == [op |-> "purchase_create_return", store |-> store,
                    id |-> nextPurchaseId, ref |-> ref,
                    over |-> ExceedsRemaining(purchases, ref, lines), status |-> 0]
            db  == PurchaseReturnSerializer_create(Database, nextPurchaseId, store, ref, lines)
        IN IF ~PurchaseReturnSerializer_validate(purchases, ref, lines)
           THEN /\ Reject(req, 400)
                /\ UNCHANGED nextPurchaseId
                /\ stockBeforeCreate' = StartStock
           ELSE /\ db.ok => nextPurchaseId <= MaxPurchases
                /\ Commit(db, req, 201)
                /\ nextPurchaseId' = IF db.ok THEN nextPurchaseId + 1 ELSE nextPurchaseId
                /\ stockBeforeCreate' = IF db.ok THEN stock ELSE StartStock

PurchaseCreate       == PurchaseCreateIn(Stores, LineLists(PurchaseLine))
PurchaseUpdate       == PurchaseUpdateIn(Stores, LineLists(PurchaseLine))
PurchaseDestroy      == PurchaseDestroyIn(Stores)
PurchaseCreateReturn == PurchaseCreateReturnIn(Stores, LineLists(PurchaseLine))

Next ==
    \/ PurchaseCreate
    \/ PurchaseUpdate
    \/ PurchaseDestroy
    \/ PurchaseCreateReturn

Spec == Init /\ [][Next]_vars

(***************************************************************************)
(* Sale requests.  Primary keys matter by their order only, so a rolled    *)
(* back insert does not use one up.                                        *)
(***************************************************************************)
SaleRequest(op, id, ref, status) ==
    [op |-> op, store |-> 0, id |-> id, ref |-> ref, over |-> FALSE, status |-> status]

\* Variant of the stock effect: every sold product gives up one unit.
Sale_stock_Decrement(stk, items) ==
    [p \in DOMAIN stk |->
        IF stk[p] > 0 /\ \E k \in 1..Len(items) : items[k].product = p
        THEN stk[p] - 1 ELSE stk[p]]

\* What a sale request does to the Product rows: SaleSerializer.create and
\* update, Sale.return_sale and the delete build and remove Sale and
\* SaleItem rows only; no statement of them writes a Product.
Sale_stock(stk, items) == stk

SaleFrame(items) ==
    /\ stock' = Sale_stock(stock, items)
    /\ UNCHANGED <<purchases, nextPurchaseId, stockBeforeCreate>>
    /\ UNCHANGED <<supplierVars, inflight>>

\* POST /sales/
SaleCreateIn(customers, lists, maxSales) ==
    /\ nextSaleId <= maxSales
    /\ \E customer \in customers, lines \in lists :
        LET r == SaleSerializer_create(sales, nextSaleId, customer, lines)
        IN IF /\ SaleSerializer_validate(lines, FALSE)
              /\ \A i \in 1..Len(lines) : SaleLineValid(lines[i])
              /\ r.ok
           THEN /\ sales' = r.rows
                /\ nextSaleId' = nextSaleId + 1
                /\ request' = SaleRequest("sale_create", nextSaleId, 0, 201)
                /\ SaleFrame(r.rows[nextSaleId].items)
           ELSE /\ UNCHANGED saleVars
                /\ request' = SaleRequest("sale_create", nextSaleId, 0, 400)
                /\ SaleFrame(<<>>)

\* PUT /sales/{id}/
SaleUpdateIn(customers, lists) ==
    /\ \E id \in DOMAIN sales, customer \in customers, lines \in lists :
        LET r == SaleSerializer_update(sales, id, customer, lines)
        IN IF /\ SaleSerializer_validate(lines, sales[id].is_return)
              /\ \A i \in 1..Len(lines) : SaleLineValid(lines[i])
              /\ r.ok
           THEN /\ sales' = r.rows
                /\ request' = SaleRequest("sale_update", id, 0, 200)
                /\ SaleFrame(r.rows[id].items)
           ELSE /\ UNCHANGED sales
                /\ request' = SaleRequest("sale_update", id, 0, 400)
                /\ SaleFrame(<<>>)
    /\ UNCHANGED nextSaleId

\* POST /sales/{id}/return_sale/, handled without another request in
\* between.  request.ref is the sale the return was asked for.
SaleReturnIn(maxSales) ==
    \E id \in DOMAIN sales :
        LET r == Sale_return_sale(sales, id, nextSaleId)
        IN IF r.ok
           THEN /\ nextSaleId <= maxSales
                /\ sales' = r.rows
                /\ nextSaleId' = nextSaleId + 1
                /\ request' = SaleRequest("sale_return", nextSaleId, id, 201)
                /\ SaleFrame(r.rows[nextSaleId].items)
           ELSE /\ UNCHANGED saleVars
                /\ request' = SaleRequest("sale_return", 0, id, 400)
                /\ SaleFrame(<<>>)

\* DELETE /sales/{id}/
SaleDestroy ==
    /\ \E id \in DOMAIN sales :
        /\ sales' = Sale_delete(sales, id)
        /\ request' = SaleRequest("sale_destroy", id, 0, 204)
        /\ SaleFrame(<<>>)
    /\ UNCHANGED nextSaleId

SaleCreate == SaleCreateIn(Customers, LineLists(SaleLine), MaxSales)
SaleUpdate == SaleUpdateIn(Customers, LineLists(SaleLine))
SaleReturn == SaleReturnIn(MaxSales)

NextSale ==
    \/ SaleCreate
    \/ SaleUpdate
    \/ SaleReturn
    \/ SaleDestroy

SpecSale == Init /\ [][NextSale]_vars

(***************************************************************************)
(* Purchases and sales side by side, with the users of NumDocStores stores *)
(* and requests of up to MaxDocLines lines.                                *)
(***************************************************************************)
DocStores == 1..NumDocStores

DocPurchaseLine ==
    { [product |-> 1, quantity |-> QtyScale,        rate |-> 100],
      [product |-> 1, quantity |-> QtyScale \div 2, rate |-> 100] }

DocSaleLine ==
    { [product |-> 1, quantity |-> QtyScale, rate |-> 60000],
      [product |-> 2, quantity |-> QtyScale, rate |-> 40000] }

DocCustomers == {0, 2}

DocLists(S) == UNION {[1..n -> S] : n \in 0..MaxDocLines}

DocPurchaseCreate       == PurchaseCreateIn(DocStores, DocLists(DocPurchaseLine))
DocPurchaseUpdate       == PurchaseUpdateIn(DocStores, DocLists(DocPurchaseLine))
DocPurchaseDestroy      == PurchaseDestroyIn(DocStores)
DocPurchaseCreateReturn == PurchaseCreateReturnIn(DocStores, DocLists(DocPurchaseLine))
DocSaleCreate == SaleCreateIn(DocCustomers, DocLists(DocSaleLine), MaxSales)
DocSaleUpdate == SaleUpdateIn(DocCustomers, DocLists(DocSaleLine))
DocSaleReturn == SaleReturnIn(MaxSales)
DocSaleDestroy == SaleDestroy

NextDocuments ==
    \/ DocPurchaseCreate
    \/ DocPurchaseUpdate
    \/ DocPurchaseDestroy
    \/ DocPurchaseCreateReturn
    \/ DocSaleCreate
    \/ DocSaleUpdate
    \/ DocSaleReturn
    \/ DocSaleDestroy

SpecDocuments == Init /\ [][NextDocuments]_vars

(***************************************************************************)
(* Sale create, return and delete one at a time, up to MaxNumberedSales    *)
(* sale rows: the states the numbering of Sale.save works on.              *)
(***************************************************************************)
NumberedSaleCreate  == SaleCreateIn(DocCustomers, DocLists(DocSaleLine), MaxNumberedSales)
NumberedSaleReturn  == SaleReturnIn(MaxNumberedSales)
NumberedSaleDestroy == SaleDestroy

NextSaleNumbering ==
    \/ NumberedSaleCreate
    \/ NumberedSaleReturn
    \/ NumberedSaleDestroy

SpecSaleNumbering == Init /\ [][NextSaleNumbering]_vars

(***************************************************************************)
(* return_sale handled by several workers side by side.  A worker runs the *)
(* two checks of Sale.return_sale on what is committed, and later its      *)
(* INSERTs and its commit: the unique index on invoice_no makes the INSERT *)
(* wait for a row another transaction inserted and fail once that one has  *)
(* committed, so that the INSERTs see the committed rows.                  *)
(***************************************************************************)
ReturnSaleBegin ==
    /\ \E w \in Workers, id \in DOMAIN sales :
        /\ inflight[w] = Idle
        /\ IF Sale_return_checks(sales, id)
           THEN /\ inflight' = [inflight EXCEPT ![w] = [op |-> "return_sale", id |-> id]]
                /\ request' = SaleRequest("sale_return_begin", 0, id, 0)
           ELSE /\ UNCHANGED inflight
                /\ request' = SaleRequest("sale_return_begin", 0, id, 400)
    /\ UNCHANGED <<purchaseVars, saleVars, supplierVars>>

ReturnSaleFinish ==
    /\ \E w \in Workers :
        /\ inflight[w].op = "return_sale"
        /\ LET id == inflight[w].id
               r  == IF id \in DOMAIN sales
                     THEN Sale_return_insert(sales, id, nextSaleId)
                     ELSE [ok |-> FALSE, rows |-> sales]
           IN IF r.ok
              THEN /\ nextSaleId <= MaxNumberedSales
                   /\ sales' = r.rows
                   /\ nextSaleId' = nextSaleId + 1
                   /\ request' = SaleRequest("sale_return_finish", nextSaleId, id, 201)
              ELSE /\ UNCHANGED saleVars
                   /\ request' = SaleRequest("sale_return_finish", 0, id, 400)
        /\ inflight' = [inflight EXCEPT ![w] = Idle]
    /\ UNCHANGED <<purchaseVars, supplierVars>>

NextSaleConcurrent ==
    \/ NumberedSaleCreate
    \/ NumberedSaleDestroy
    \/ ReturnSaleBegin
    \/ ReturnSaleFinish

SpecSaleConcurrent == Init /\ [][NextSaleConcurrent]_vars

(***************************************************************************)
(* Document creates handled side by side.  A purchase request reads three  *)
(* times before it writes: the validation loads the Product rows of its    *)
(* lines (and, for a return, the lines of the original), Purchase.save     *)
(* reads the highest number of its scope, and the INSERT meets the unique  *)
(* index.  Under READ COMMITTED a transaction sees what was committed when *)
(* each statement runs, and its own writes become visible at its commit,   *)
(* so the writes of a request are one step.  A sale create computes its    *)
(* number in Sale.save and inserts.                                        *)
(***************************************************************************)
ConcurrentPurchaseLine == {[product |-> 1, quantity |-> QtyScale, rate |-> 100]}
ConcurrentSaleLine == {[product |-> 1, quantity |-> QtyScale, rate |-> 60000]}
ConcurrentCustomers == {0}

Pending(op, store, ref, customer, lines, stock0, num) ==
    [op |-> op, id |-> 0, store |-> store, ref |-> ref, customer |-> customer,
     lines |-> lines, stock0 |-> stock0, num |-> num]

\* POST /purchases/ up to the end of serializer.is_valid()
PurchaseCreateValidate ==
    /\ \E w \in Workers, store \in Stores, lines \in DocLists(ConcurrentPurchaseLine) :
        /\ inflight[w] = Idle
        /\ IF PurchaseSerializer_validate(lines)
           THEN /\ inflight' = [inflight EXCEPT ![w] =
                        Pending("purchase_create", store, 0, 0, lines, stock, 0)]
                /\ request' = [op |-> "purchase_create_validate", store |-> store,
                               id |-> 0, ref |-> 0, over |-> FALSE, status |-> 0]
           ELSE /\ UNCHANGED inflight
                /\ request' = [op |-> "purchase_create_validate", store |-> store,
                               id |-> 0, ref |-> 0, over |-> FALSE, status |-> 400]
    /\ UNCHANGED <<purchaseVars, saleVars, supplierVars>>

\* POST /purchases/create_return/ up to the end of serializer.is_valid()
PurchaseReturnValidate ==
    /\ \E w \in Workers, store \in Stores, ref \in DOMAIN purchases,
          lines \in DocLists(ConcurrentPurchaseLine) :
        /\ inflight[w] = Idle
        /\ IF PurchaseReturnSerializer_validate(purchases, ref, lines)
           THEN /\ inflight' = [inflight EXCEPT ![w] =
                        Pending("purchase_create_return", store, ref, 0, lines, stock, 0)]
                /\ request' = [op |-> "purchase_return_validate", store |-> store,
                               id |-> 0, ref |-> ref, over |-> FALSE, status |-> 0]
           ELSE /\ UNCHANGED inflight
                /\ request' = [op |-> "purchase_return_validate", store |-> store,
                               id |-> 0, ref |-> ref, over |-> FALSE, status |-> 400]
    /\ UNCHANGED <<purchaseVars, saleVars, supplierVars>>

PendingPurchase(w) ==
    inflight[w].op \in {"purchase_create", "purchase_create_return"}

\* Purchase.save lines 49-65: the number after the highest of the scope.
PurchaseSaveNumber ==
    /\ \E w \in Workers :
        /\ PendingPurchase(w)
        /\ inflight[w].num = 0
        /\ inflight' = [inflight EXCEPT ![w].num =
                NextInvoiceNum(purchases, inflight[w].store,
                               inflight[w].op = "purchase_create_return")]
    /\ UNCHANGED <<purchaseVars, saleVars, supplierVars, request>>

\* The INSERT of the document, its lines and stock writes, and the commit.
PurchaseWrite ==
    /\ \E w \in Workers :
        /\ PendingPurchase(w)
        /\ inflight[w].num # 0
        /\ LET f   == inflight[w]
               ret == f.op = "purchase_create_return"
               inv == <<InvoicePrefix(ret), f.num>>
               req == [op |-> f.op, store |-> f.store, id |-> nextPurchaseId,
                       ref |-> f.ref, over |-> FALSE, status |-> 0]
               db  == IF ret
                      THEN PurchaseReturnSerializer_createWith(Database, nextPurchaseId,
                               f.store, f.ref, f.lines, inv, f.stock0)
                      ELSE PurchaseSerializer_createWith(Database, nextPurchaseId,
                               f.store, f.lines, inv, f.stock0)
           IN /\ db.ok => nextPurchaseId <= MaxConcurrentPurchases
              /\ Commit(db, req, 201)
              /\ nextPurchaseId' = IF db.ok THEN nextPurchaseId + 1 ELSE nextPurchaseId
        /\ inflight' = [inflight EXCEPT ![w] = Idle]
    /\ stockBeforeCreate' = StartStock
    /\ UNCHANGED <<saleVars, supplierVars>>

\* POST /sales/ up to the number Sale.save generates (lines 43-56)
SaleCreateBegin ==
    /\ \E w \in Workers, customer \in ConcurrentCustomers,
          lines \in DocLists(ConcurrentSaleLine) :
        /\ inflight[w] = Idle
        /\ IF /\ SaleSerializer_validate(lines, FALSE)
              /\ \A i \in 1..Len(lines) : SaleLineValid(lines[i])
           THEN /\ inflight' = [inflight EXCEPT ![w] =
                        Pending("sale_create", 0, 0, customer, lines, stock,
                                LastSaleNum(sales) + 1)]
                /\ request' = SaleRequest("sale_create_begin", 0, 0, 0)
           ELSE /\ UNCHANGED inflight
                /\ request' = SaleRequest("sale_create_begin", 0, 0, 400)
    /\ UNCHANGED <<purchaseVars, saleVars, supplierVars>>

\* The INSERT of the sale and its lines, and the commit.
SaleCreateFinish ==
    /\ \E w \in Workers :
        /\ inflight[w].op = "sale_create"
        /\ LET f == inflight[w]
               r == SaleSerializer_createAs(sales, nextSaleId, f.customer, f.lines,
                                            <<"SA", f.num>>)
           IN IF r.ok
              THEN /\ nextSaleId <= MaxSales
                   /\ sales' = r.rows
                   /\ nextSaleId' = nextSaleId + 1
                   /\ request' = SaleRequest("sale_create", nextSaleId, 0, 201)
                   /\ stock' = Sale_stock(stock, r.rows[nextSaleId].items)
              ELSE /\ UNCHANGED saleVars
                   /\ request' = SaleRequest("sale_create", nextSaleId, 0, 400)
                   /\ stock' = Sale_stock(stock, <<>>)
        /\ inflight' = [inflight EXCEPT ![w] = Idle]
    /\ UNCHANGED <<purchases, nextPurchaseId, stockBeforeCreate, supplierVars>>

NextConcurrent ==
    \/ PurchaseCreateValidate
    \/ PurchaseReturnValidate
    \/ PurchaseSaveNumber
    \/ PurchaseWrite
    \/ SaleCreateBegin
    \/ SaleCreateFinish

SpecConcurrent == Init /\ [][NextConcurrent]_vars

(***************************************************************************)
(* Supplier requests.  request.ref is the supplier of the transaction the  *)
(* request wrote or deleted.                                               *)
(***************************************************************************)
SupplierRequest(op, id, ref, status) ==
    [op |-> op, store |-> 0, id |-> id, ref |-> ref, over |-> FALSE, status |-> status]

\* POST /suppliers/: current_balance is read-only and starts at its default.
SupplierCreateIn(openings) ==
    /\ UNCHANGED <<purchaseVars, saleVars, inflight>>
    /\ Cardinality(DOMAIN suppliers) < MaxSuppliers
    /\ \E opening \in openings :
        LET sid == Cardinality(DOMAIN suppliers) + 1 IN
        /\ suppliers' = [i \in DOMAIN suppliers \cup {sid} |->
                            IF i = sid
                            THEN [opening_balance |-> opening, current_balance |-> 0]
                            ELSE suppliers[i]]
        /\ request' = SupplierRequest("supplier_create", sid, sid, 201)
    /\ UNCHANGED <<transactions, nextTransactionId>>

\* PUT /suppliers/{id}/
SupplierUpdateIn(openings) ==
    /\ UNCHANGED <<purchaseVars, saleVars, inflight>>
    /\ \E sid \in DOMAIN suppliers, opening \in openings :
        /\ suppliers' = [suppliers EXCEPT ![sid].opening_balance = opening]
        /\ request' = SupplierRequest("supplier_update", sid, sid, 200)
    /\ UNCHANGED <<transactions, nextTransactionId>>

SupplierCreate == SupplierCreateIn(OpeningBalances)
SupplierUpdate == SupplierUpdateIn(OpeningBalances)

\* POST /supplier-transactions/: SupplierTransaction.save inserts the row and
\* then calls update_balance, each statement in its own transaction; when
\* the Supplier.save of update_balance raises, the request ends in 500 with
\* the row already committed.
TransactionCreate ==
    /\ UNCHANGED <<purchaseVars, saleVars, inflight>>
    /\ nextTransactionId <= MaxTransactions
    /\ \E sid \in DOMAIN suppliers, debit \in Debits, credit \in Credits :
        LET id   == nextTransactionId
            txns == [i \in DOMAIN transactions \cup {id} |->
                        IF i = id
                        THEN [supplier |-> sid, debit |-> debit, credit |-> credit,
                              transaction_no |-> NextTransactionNo(transactions)]
                        ELSE transactions[i]]
        IN IF ~SupplierTransactionSerializer_validate(debit, credit)
           THEN /\ UNCHANGED supplierVars
                /\ request' = SupplierRequest("transaction_create", id, sid, 400)
           ELSE LET sups == Supplier_update_balance(suppliers, txns, sid) IN
                /\ transactions' = txns
                /\ nextTransactionId' = nextTransactionId + 1
                /\ IF BalanceFits(sups[sid].current_balance)
                   THEN /\ suppliers' = sups
                        /\ request' = SupplierRequest("transaction_create", id, sid, 201)
                   ELSE /\ UNCHANGED suppliers
                        /\ request' = SupplierRequest("transaction_create", id, sid, 500)

\* PUT /supplier-transactions/{id}/
TransactionUpdate ==
    /\ UNCHANGED <<purchaseVars, saleVars, inflight>>
    /\ \E id \in DOMAIN transactions, sid \in DOMAIN suppliers,
          debit \in Debits, credit \in Credits :
        LET txns == [transactions EXCEPT ![id] =
                        [@ EXCEPT !.supplier = sid, !.debit = debit, !.credit = credit]]
        IN IF ~SupplierTransactionSerializer_validate(debit, credit)
           THEN /\ UNCHANGED <<suppliers, transactions>>
                /\ request' = SupplierRequest("transaction_update", id, sid, 400)
           ELSE LET sups == Supplier_update_balance(suppliers, txns, sid) IN
                /\ transactions' = txns
                /\ IF BalanceFits(sups[sid].current_balance)
                   THEN /\ suppliers' = sups
                        /\ request' = SupplierRequest("transaction_update", id, sid, 200)
                   ELSE /\ UNCHANGED suppliers
                        /\ request' = SupplierRequest("transaction_update", id, sid, 500)
    /\ UNCHANGED nextTransactionId

\* DELETE /supplier-transactions/{id}/
TransactionDestroy ==
    /\ UNCHANGED <<purchaseVars, saleVars, inflight>>
    /\ \E id \in DOMAIN transactions :
        LET sid  == transactions[id].supplier
            txns == [i \in DOMAIN transactions \ {id} |-> transactions[i]]
            sups == Supplier_update_balance(suppliers, txns, sid)
        IN /\ transactions' = txns
           /\ IF BalanceFits(sups[sid].current_balance)
              THEN /\ suppliers' = sups
                   /\ request' = SupplierRequest("transaction_destroy", id, sid, 204)
              ELSE /\ UNCHANGED suppliers
                   /\ request' = SupplierRequest("transaction_destroy", id, sid, 500)
    /\ UNCHANGED nextTransactionId

NextSupplier ==
    \/ SupplierCreate
    \/ SupplierUpdate
    \/ TransactionCreate
    \/ TransactionUpdate
    \/ TransactionDestroy

SpecSupplier == Init /\ [][NextSupplier]_vars

(***************************************************************************)
(* The supplier ledger with opening balances up to the largest value the   *)
(* opening_balance column accepts.                                         *)
(***************************************************************************)
LargeOpeningBalances == {OpeningStep, MaxBalance}

LargeSupplierCreate == SupplierCreateIn(LargeOpeningBalances)
LargeSupplierUpdate == SupplierUpdateIn(LargeOpeningBalances)

NextSupplierLarge ==
    \/ LargeSupplierCreate
    \/ LargeSupplierUpdate
    \/ TransactionCreate
    \/ TransactionUpdate
    \/ TransactionDestroy

SpecSupplierLarge == Init /\ [][NextSupplierLarge]_vars


(***************************************************************************)
(* Quantities recorded by the lines, in hundredths.                        *)
(***************************************************************************)
\* Total quantity of product p over the lines of one document.
LineQty(items, p) ==
    SumSeq([i \in 1..Len(items) |->
        IF items[i].product = p THEN items[i].quantity ELSE 0])

\* Total quantity of product p over the existing documents with the given
\* return flag.
LedgerQty(p, is_return) ==
    SumSeq([i \in 1..MaxPurchases |->
        IF i \in DOMAIN purchases /\ purchases[i].is_return = is_return
        THEN LineQty(purchases[i].items, p) ELSE 0])

\* Every line of the document is a whole number of units, so that the
\* integer stock column can hold the sums the claims speak of.
WholeUnits(items) ==
    \A k \in 1..Len(items) : items[k].quantity % QtyScale = 0

(***************************************************************************)
(* C1: every product's stock equals its initial stock plus the quantities  *)
(* of the existing non-return purchase lines minus the quantities of the   *)
(* existing return purchase lines for it.  Stated for the states whose     *)
(* lines are whole units.                                                  *)
(***************************************************************************)
C1_StockMatchesLines ==
    (\A i \in DOMAIN purchases : WholeUnits(purchases[i].items)) =>
        \A p \in Products :
            stock[p] * QtyScale =
                InitialStock * QtyScale + LedgerQty(p, FALSE) - LedgerQty(p, TRUE)

(***************************************************************************)
(* C2: creating a purchase document moves the stock of each product by     *)
(* exactly the total quantity of its lines in the document, added for a    *)
(* purchase and subtracted for a return.  Stated for documents whose lines *)
(* are whole units.                                                        *)
(***************************************************************************)
C2_CreateAppliesQuantityOnce ==
    [][ /\ ( /\ request'.op = "purchase_create" /\ request'.status = 201
              /\ WholeUnits(purchases'[request'.id].items) ) =>
            \A p \in Products :
                stock'[p] * QtyScale =
                    stock[p] * QtyScale + LineQty(purchases'[request'.id].items, p)
        /\ ( /\ request'.op = "purchase_create_return" /\ request'.status = 201
              /\ WholeUnits(purchases'[request'.id].items) ) =>
            \A p \in Products :
                stock'[p] * QtyScale =
                    stock[p] * QtyScale - LineQty(purchases'[request'.id].items, p)
      ]_vars

(***************************************************************************)
(* C3: creating a purchase and deleting it right away leaves every         *)
(* product's stock at its value before the create.                         *)
(***************************************************************************)
C3_CreateDeleteRoundTrip ==
    [][ ( /\ request.op = "purchase_create" /\ request.status = 201
          /\ request'.op = "purchase_destroy" /\ request'.status = 204
          /\ request'.id = request.id )
        => stock' = stockBeforeCreate ]_vars

(***************************************************************************)
(* C4: updating a purchase leaves each product's stock at its value before *)
(* the update minus the quantities of the old lines plus the quantities of *)
(* the new lines; resubmitting the same lines changes no stock.  Stated    *)
(* for non-return purchases whose old and new lines are whole units.       *)
(***************************************************************************)
C4_UpdateReplacesQuantities ==
    [][ ( /\ request'.op = "purchase_update" /\ request'.status = 200
          /\ ~purchases[request'.id].is_return
          /\ WholeUnits(purchases[request'.id].items)
          /\ WholeUnits(purchases'[request'.id].items) )
        => \A p \in Products :
              stock'[p] * QtyScale =
                  stock[p] * QtyScale
                  - LineQty(purchases[request'.id].items, p)
                  + LineQty(purchases'[request'.id].items, p) ]_vars

(***************************************************************************)
(* C5: after a purchase return is created the original is 'returned'       *)
(* exactly if every line of it has returned_quantity = quantity, and is    *)
(* 'completed' otherwise.  Stated for the returns that leave every line of *)
(* the original within its quantity, as in the claim's example (4 of 10,   *)
(* then 6).                                                                *)
(***************************************************************************)
C5_ReturnedIffFullyReturned ==
    ( /\ request.op = "purchase_create_return" /\ request.status = 201
      /\ \A k \in 1..Len(purchases[request.ref].items) :
            purchases[request.ref].items[k].returned_quantity
                <= purchases[request.ref].items[k].quantity ) =>
        LET orig == purchases[request.ref] IN
        IF FullyReturned(orig) THEN orig.status = "returned"
                               ELSE orig.status = "completed"

(***************************************************************************)
(* C6: every purchase line has 0 <= returned_quantity <= quantity.         *)
(***************************************************************************)
C6_ReturnedWithinQuantity ==
    \A i \in DOMAIN purchases :
        \A k \in 1..Len(purchases[i].items) :
            /\ 0 <= purchases[i].items[k].returned_quantity
            /\ purchases[i].items[k].returned_quantity <= purchases[i].items[k].quantity

(***************************************************************************)
(* C7: a purchase-return request with a line above quantity minus          *)
(* returned_quantity of the matching original line is rejected, and no     *)
(* document, line, returned_quantity, status or stock value changes.       *)
(***************************************************************************)
C7_OverReturnRejected ==
    [][ (request'.op = "purchase_create_return" /\ request'.over) =>
            /\ request'.status = 400
            /\ purchases' = purchases
            /\ stock' = stock
            /\ nextPurchaseId' = nextPurchaseId ]_vars

\* An over-return was rejected against an original of which a part has
\* been returned already.
C7_Witness ==
    /\ request.op = "purchase_create_return"
    /\ request.over
    /\ request.status = 400
    /\ \E k \in 1..Len(purchases[request.ref].items) :
          purchases[request.ref].items[k].returned_quantity > 0

(***************************************************************************)
(* C8: every sale stored by create or update has final_amount equal to     *)
(* total_amount - discount_amount + tax_amount on its stored values, with  *)
(* or without a privilege card.  Stated for the sales whose lines have a   *)
(* positive quantity, with a slack of one cent for the rounding of the     *)
(* four columns.                                                           *)
(***************************************************************************)
C8_FinalIsTotalMinusDiscountPlusTax ==
    \A i \in DOMAIN sales :
        ( /\ ~sales[i].is_return
          /\ \A k \in 1..Len(sales[i].items) : sales[i].items[k].quantity > 0 ) =>
            LET d == sales[i].final_amount
                     - (sales[i].total_amount - sales[i].discount_amount
                        + sales[i].tax_amount)
            IN d >= -1 /\ d <= 1

(***************************************************************************)
(* What the stored lines and the customer of a sale say about its header,  *)
(* in micro units.                                                         *)
(***************************************************************************)
ExpectedGrossMicro(items) ==
    100 * SumSeq([k \in 1..Len(items) |-> items[k].quantity * items[k].rate])

ExpectedDiscountMicro(items, customer) ==
    IF customer = 2 THEN (ExpectedGrossMicro(items) \div 100) * CardDiscount ELSE 0

ExpectedTaxMicro(items) ==
    SumSeq([k \in 1..Len(items) |->
        IF items[k].tax_type = "EXCLUSIVE"
        THEN items[k].quantity * items[k].rate
                * (items[k].tax1_rate + items[k].tax2_rate)
        ELSE 0])

(***************************************************************************)
(* C9: a created sale stores, rounded to cents, discount_amount =          *)
(* gross * percentage / 100 for a customer with a privilege card and 0     *)
(* otherwise, total_amount = gross - discount, tax_amount = the sum over   *)
(* the EXCLUSIVE lines of quantity * rate * (tax1_rate + tax2_rate) / 100  *)
(* on the undiscounted line value, and final_amount = total + tax, where   *)
(* gross is the sum of quantity * rate over its lines.                     *)
(***************************************************************************)
C9_SaleCreateComputation ==
    (request.op = "sale_create" /\ request.status = 201) =>
        LET s     == sales[request.id]
            gross == ExpectedGrossMicro(s.items)
            disc  == ExpectedDiscountMicro(s.items, s.customer)
            tax   == ExpectedTaxMicro(s.items)
        IN /\ s.discount_amount = RoundCents(disc)
           /\ s.total_amount    = RoundCents(gross - disc)
           /\ s.tax_amount      = RoundCents(tax)
           /\ s.final_amount    = RoundCents(gross - disc + tax)

\* The claim's example: gross 1000.00 of which 400.00 is EXCLUSIVE at 5%,
\* sold to a card holder: 1000 * CardDiscount / 100 off, tax 20.00.
C9_Witness ==
    /\ request.op = "sale_create" /\ request.status = 201
    /\ LET s == sales[request.id] IN
       /\ s.customer = 2
       /\ ExpectedGrossMicro(s.items) = 1000000000
       /\ s.discount_amount = 1000 * CardDiscount
       /\ s.total_amount = 100000 - 1000 * CardDiscount
       /\ s.tax_amount = 2000
       /\ s.final_amount = 102000 - 1000 * CardDiscount

(***************************************************************************)
(* The transactions of a supplier, summed by the claim.                    *)
(***************************************************************************)
RECURSIVE SumField(_, _)
SumField(ids, f) ==
    IF ids = {} THEN 0
    ELSE LET i == CHOOSE x \in ids : TRUE
         IN transactions[i][f] + SumField(ids \ {i}, f)

OwnedBy(sid) == {i \in DOMAIN transactions : transactions[i].supplier = sid}

(***************************************************************************)
(* C10: after a supplier transaction is created, updated or deleted, the   *)
(* current_balance of the supplier that owns it equals opening_balance     *)
(* plus the debits minus the credits of that supplier's transactions.      *)
(***************************************************************************)
C10_BalanceAfterTransactionWrite ==
    ( /\ request.op \in {"transaction_create", "transaction_update",
                         "transaction_destroy"}
      /\ request.status \in {200, 201, 204} ) =>
        suppliers[request.ref].current_balance =
            suppliers[request.ref].opening_balance
            + SumField(OwnedBy(request.ref), "debit")
            - SumField(OwnedBy(request.ref), "credit")

\* A transaction was updated for a supplier with an opening balance and
\* with both debits and credits among two or more transactions.
C10_Witness ==
    /\ request.op = "transaction_update" /\ request.status = 200
    /\ suppliers[request.ref].opening_balance # 0
    /\ Cardinality(OwnedBy(request.ref)) >= 2
    /\ SumField(OwnedBy(request.ref), "debit") > 0
    /\ SumField(OwnedBy(request.ref), "credit") > 0

(***************************************************************************)
(* C11: an update request on a document whose is_return flag is true is    *)
(* rejected and changes no stored document, line or stock value, for       *)
(* return sales and for return purchases.                                  *)
(***************************************************************************)
C11_UpdateOfReturnRejected ==
    [][ ( \/ /\ request'.op = "purchase_update"
             /\ purchases[request'.id].is_return
          \/ /\ request'.op = "sale_update"
             /\ sales[request'.id].is_return )
        => /\ request'.status # 200
           /\ purchases' = purchases
           /\ sales' = sales
           /\ stock' = stock ]_vars

(***************************************************************************)
(* C12: with requests handled one at a time, the invoice_no a sale create  *)
(* generates differs from the invoice_no of every existing sale, in every  *)
(* state reached by sale create, return and delete, so that the create     *)
(* does not fail on the unique constraint.                                 *)
(***************************************************************************)
C12_GeneratedSaleInvoiceIsFree ==
    \A i \in DOMAIN sales :
        sales[i].invoice_no # <<"SA", LastSaleNum(sales) + 1>>

(***************************************************************************)
(* C13: the invoice_no a purchase create generates in a scope (store,      *)
(* return flag), the prefix followed by the successor of the highest       *)
(* number used in the scope, is the invoice_no of no existing purchase,    *)
(* purchases of other stores included, so that the create succeeds in      *)
(* every store.                                                            *)
(***************************************************************************)
C13_GeneratedPurchaseInvoiceIsFree ==
    \A store \in DocStores, is_return \in BOOLEAN :
        \A i \in DOMAIN purchases :
            purchases[i].invoice_no #
                <<InvoicePrefix(is_return), NextInvoiceNum(purchases, store, is_return)>>

C15_OneReturnPerSale ==
    \A id \in DOMAIN sales :
        Cardinality({i \in DOMAIN sales : sales[i].original_sale = id}) <= 1

\* A worker that had passed the checks of return_sale lost against the
\* return another worker committed for the same sale in between.
C15_Witness ==
    /\ request.op = "sale_return_finish"
    /\ request.status = 400
    /\ request.ref \in DOMAIN sales
    /\ \E i \in DOMAIN sales : sales[i].original_sale = request.ref

(***************************************************************************)
(* C16: when return_sale succeeds on a sale, the new return sale has       *)
(* is_return true, references the original, carries the negation of the    *)
(* original's total_amount, discount_amount, tax_amount and final_amount,  *)
(* and has one line per original line with the same product and rate and   *)
(* with negated quantity and negated amount.                               *)
(***************************************************************************)
C16_ReturnSaleNegatesOriginal ==
    (request.op = "sale_return" /\ request.status = 201) =>
        LET ret  == sales[request.id]
            orig == sales[request.ref]
        IN /\ ret.is_return
           /\ ret.original_sale = request.ref
           /\ ret.total_amount    = 0 - orig.total_amount
           /\ ret.discount_amount = 0 - orig.discount_amount
           /\ ret.tax_amount      = 0 - orig.tax_amount
           /\ ret.final_amount    = 0 - orig.final_amount
           /\ Len(ret.items) = Len(orig.items)
           /\ \A k \in 1..Len(orig.items) :
                /\ ret.items[k].product  = orig.items[k].product
                /\ ret.items[k].rate     = orig.items[k].rate
                /\ ret.items[k].quantity = 0 - orig.items[k].quantity
                /\ ret.items[k].amount   = 0 - orig.items[k].amount

\* A sale of two lines with a discount and a tax was returned.
C16_Witness ==
    /\ request.op = "sale_return" /\ request.status = 201
    /\ Len(sales[request.ref].items) = 2
    /\ sales[request.ref].discount_amount > 0
    /\ sales[request.ref].tax_amount > 0
    /\ sales[request.id].final_amount < 0

(***************************************************************************)
(* C17: a return request whose original document is itself a return is    *)
(* rejected, for sales and for purchases, and the rejection creates no     *)
(* document and changes no line, stock or status value.                    *)
(***************************************************************************)
C17_ReturnOfReturnRejected ==
    [][ ( \/ /\ request'.op = "purchase_create_return"
             /\ purchases[request'.ref].is_return
          \/ /\ request'.op = "sale_return"
             /\ sales[request'.ref].is_return )
        => /\ request'.status = 400
           /\ purchases' = purchases
           /\ sales' = sales
           /\ stock' = stock
           /\ nextPurchaseId' = nextPurchaseId
           /\ nextSaleId' = nextSaleId ]_vars

\* A return was asked for a return purchase whose lines would have covered
\* the request, while a return sale exists as well.
C17_Witness ==
    /\ request.op = "purchase_create_return"
    /\ request.status = 400
    /\ purchases[request.ref].is_return
    /\ Len(purchases[request.ref].items) > 0
    /\ \E i \in DOMAIN sales : sales[i].is_return

\* A return was asked for a return sale.
C17_WitnessSale ==
    /\ request.op = "sale_return"
    /\ request.status = 400
    /\ sales[request.ref].is_return

(***************************************************************************)
(* The amount the claim gives a line, in micro units.                      *)
(***************************************************************************)
ExpectedLineAmountMicro(item) ==
    IF item.tax_type = "EXCLUSIVE"
    THEN item.quantity * item.rate * 100
         + item.quantity * item.rate * (item.tax1_rate + item.tax2_rate)
    ELSE item.quantity * item.rate * 100

Distance(a, b) == IF a >= b THEN a - b ELSE b - a

(***************************************************************************)
(* C18: every stored line (PurchaseItem or SaleItem) of tax_type EXCLUSIVE *)
(* has amount = quantity*rate + quantity*rate*(tax1_rate + tax2_rate)/100, *)
(* and every INCLUSIVE line has amount = quantity*rate.  Stated up to the  *)
(* rounding of the amount column: half a cent for PurchaseItem (2 places), *)
(* half of 0.0001 for SaleItem (4 places).                                 *)
(***************************************************************************)
C18_LineAmountFormula ==
    /\ \A i \in DOMAIN purchases : \A k \in 1..Len(purchases[i].items) :
          Distance(purchases[i].items[k].amount * 10000,
                   ExpectedLineAmountMicro(purchases[i].items[k])) <= 5000
    /\ \A i \in DOMAIN sales : \A k \in 1..Len(sales[i].items) :
          Distance(sales[i].items[k].amount * 100,
                   ExpectedLineAmountMicro(sales[i].items[k])) <= 50

SaleOps == {"sale_create", "sale_update", "sale_return", "sale_destroy"}

(***************************************************************************)
(* C19: no sale operation (create, update, return, delete) changes the     *)
(* stock of any product.                                                   *)
(***************************************************************************)
C19_SalesLeaveStockAlone ==
    [][request'.op \in SaleOps => stock' = stock]_vars

\* A sale of a product that has stock was created.
C19_Witness ==
    /\ request.op = "sale_create"
    /\ request.status = 201
    /\ request.id \in DOMAIN sales
    /\ \E k \in 1..Len(sales[request.id].items) :
          stock[sales[request.id].items[k].product] > 0

TransactionOps == {"transaction_create", "transaction_update", "transaction_destroy"}

(***************************************************************************)
(* C20: when the balance recomputation triggered by a supplier-transaction *)
(* create, update or delete fails, the triggering write is rolled back:    *)
(* the transaction row is not inserted, changed or removed and the         *)
(* supplier's current_balance keeps its previous value.                    *)
(***************************************************************************)
C20_FailedRecomputationRollsBack ==
    [][(request'.op \in TransactionOps /\ request'.status = 500)
          => (transactions' = transactions /\ suppliers' = suppliers)]_vars

\* What the return document ret added to the returned_quantity of line k of
\* its original: the quantities of its lines for that product, booked on
\* the product's first line.
BookedOn(ret, orig, k) ==
    IF FirstItem(orig.items, orig.items[k].product) = k
    THEN LineQty(ret.items, orig.items[k].product)
    ELSE 0

(***************************************************************************)
(* C21: creating a purchase return against an original and then deleting   *)
(* that return restores every original line's returned_quantity and every  *)
(* product's stock to their values before the return was created.  Stated  *)
(* for returns whose lines are whole units.                                *)
(***************************************************************************)
C21_ReturnDeleteRoundTrip ==
    [][ ( /\ request.op = "purchase_create_return" /\ request.status = 201
          /\ request'.op = "purchase_destroy" /\ request'.status = 204
          /\ request'.id = request.id
          /\ WholeUnits(purchases[request.id].items) )
        => /\ stock' = stockBeforeCreate
           /\ \A k \in 1..Len(purchases[request.ref].items) :
                 purchases'[request.ref].items[k].returned_quantity =
                     purchases[request.ref].items[k].returned_quantity
                     - BookedOn(purchases[request.id], purchases[request.ref], k)
      ]_vars

\* The product and quantity of every line of a document, in line order.
LineQuantities(row) ==
    [k \in 1..Len(row.items) |-> <<row.items[k].product, row.items[k].quantity>>]

(***************************************************************************)
(* C22: an update of a purchase that has already been fully returned       *)
(* (every line has returned_quantity = quantity) is rejected when its new  *)
(* line set would change the original line quantities, and the rejection   *)
(* leaves lines, returned_quantity and stock unchanged.  An accepted       *)
(* update shows its new line set in the lines it stored.                   *)
(***************************************************************************)
C22_UpdateOfFullyReturnedRejected ==
    [][ ( /\ request'.op = "purchase_update"
          /\ request'.id \in DOMAIN purchases
          /\ ~purchases[request'.id].is_return
          /\ FullyReturned(purchases[request'.id]) )
        => IF request'.status = 200
           THEN LineQuantities(purchases'[request'.id])
                    = LineQuantities(purchases[request'.id])
           ELSE purchases' = purchases /\ stock' = stock
      ]_vars

NoSharedInvoice ==
    /\ \A i, j \in DOMAIN purchases :
          i # j => purchases[i].invoice_no # purchases[j].invoice_no
    /\ \A i, j \in DOMAIN sales :
          i # j => sales[i].invoice_no # sales[j].invoice_no

\* Worker w takes the writing step of a purchase request whose number a
\* committed purchase already carries.
PurchaseLoses(w) ==
    /\ PendingPurchase(w)
    /\ inflight[w].num # 0
    /\ inflight'[w] # inflight[w]
    /\ \E i \in DOMAIN purchases :
          purchases[i].invoice_no =
              <<InvoicePrefix(inflight[w].op = "purchase_create_return"), inflight[w].num>>

\* Worker w takes the writing step of a sale create whose number a committed
\* sale already carries.
SaleLoses(w) ==
    /\ inflight[w].op = "sale_create"
    /\ inflight'[w] # inflight[w]
    /\ \E i \in DOMAIN sales : sales[i].invoice_no = <<"SA", inflight[w].num>>

C23_WitnessSale ==
    /\ request.op = "sale_create"
    /\ request.status = 400
    /\ \E w \in Workers : inflight[w] = Idle
    /\ sales # <<>>

\* The stock effect of a purchase create with the given lines on product p:
\* what the create, handled alone, adds to a stock of zero.
CreateEffect(lines, p) ==
    PurchaseSerializer_create(
        [stock |-> [q \in Products |-> 0], purchases |-> <<>>, ok |-> TRUE],
        1, 1, lines).stock[p]

(***************************************************************************)
(* C24: sequence-number generation is the only read-modify-write that can  *)
(* lose an update: for two purchase creates on the same product that run   *)
(* side by side and both commit, the product's final stock reflects the    *)
(* stock effect of both.  Stated per commit: a purchase create that        *)
(* commits adds its stock effect to the stock committed before it.         *)
(***************************************************************************)
C24_ConcurrentCreatesBothCount ==
    [][\A w \in Workers :
          ( /\ inflight[w].op = "purchase_create"
            /\ inflight[w].num # 0
            /\ inflight'[w] = Idle
            /\ request'.status = 201 )
          => \A p \in Products :
                stock'[p] = stock[p] + CreateEffect(inflight[w].lines, p)
      ]_vars

\* Quantity of product p over the existing return purchases that reference
\* the purchase i.
CommittedReturnQty(i, p) ==
    SumSeq([j \in 1..MaxConcurrentPurchases |->
        IF /\ j \in DOMAIN purchases
           /\ purchases[j].is_return
           /\ purchases[j].return_reference = i
        THEN LineQty(purchases[j].items, p) ELSE 0])

(***************************************************************************)
(* C29: when two purchase-return requests against the same original line   *)
(* run side by side, each within the remaining quantity on its own but     *)
(* together exceeding it, they cannot both commit: the line's              *)
(* returned_quantity never ends above its quantity and never ends below    *)
(* the sum of the committed return quantities.                             *)
(***************************************************************************)
C29_ConcurrentReturnsWithinQuantity ==
    \A i \in DOMAIN purchases :
        ~purchases[i].is_return =>
            \A k \in 1..Len(purchases[i].items) :
                LET item == purchases[i].items[k] IN
                /\ item.returned_quantity <= item.quantity
                /\ CommittedReturnQty(i, item.product) <= item.quantity
                /\ FirstItem(purchases[i].items, item.product) = k =>
                      item.returned_quantity >= CommittedReturnQty(i, item.product)

(***************************************************************************)
(* C25: every line of a non-return sale has quantity > 0: a sale create or *)
(* update request containing a line with zero or negative quantity is      *)
(* rejected, and negative quantities occur only on lines of return sales.  *)
(***************************************************************************)
C25_SaleQuantitiesPositive ==
    \A i \in DOMAIN sales :
        ~sales[i].is_return =>
            \A k \in 1..Len(sales[i].items) : sales[i].items[k].quantity > 0

(***************************************************************************)
(* C26: in every reachable state and for every supplier, current_balance   *)
(* = opening_balance + sum(debit) - sum(credit) over that supplier's       *)
(* recorded transactions; this includes the state right after a supplier   *)
(* is created with a non-zero opening_balance, after a supplier's          *)
(* opening_balance is edited, and, for the previous owner, after a         *)
(* transaction update moves the transaction to another supplier.           *)
(***************************************************************************)
C26_BalanceAlwaysMatchesLedger ==
    \A sid \in DOMAIN suppliers :
        suppliers[sid].current_balance =
            suppliers[sid].opening_balance
            + SumField(OwnedBy(sid), "debit") - SumField(OwnedBy(sid), "credit")

\* returned_quantity recorded for product p on the lines of a document.
ReturnedQty(items, p) ==
    SumSeq([k \in 1..Len(items) |->
        IF items[k].product = p THEN items[k].returned_quantity ELSE 0])

(***************************************************************************)
(* C27: in every state reachable by purchase create, update, return and    *)
(* delete, for every non-return purchase and every product in it, the      *)
(* returned_quantity recorded on the original's line for that product      *)
(* equals the sum of the quantities of that product's lines in the         *)
(* currently existing return purchases that reference the original.        *)
(***************************************************************************)
C27_ReturnedQuantityMatchesReturns ==
    \A i \in DOMAIN purchases :
        ~purchases[i].is_return =>
            \A p \in {purchases[i].items[k].product : k \in 1..Len(purchases[i].items)} :
                ReturnedQty(purchases[i].items, p) = CommittedReturnQty(i, p)

\* Reverting the lines of the non-return purchase id takes more of some
\* product than its stock holds.
RevertGoesNegative(id) ==
    /\ id \in DOMAIN purchases
    /\ ~purchases[id].is_return
    /\ WholeUnits(purchases[id].items)
    /\ \E p \in Products : LineQty(purchases[id].items, p) > stock[p] * QtyScale

(***************************************************************************)
(* C28: in every committed state every product's stock is >= 0: a purchase *)
(* return, purchase update or purchase delete whose stock write would make *)
(* a product's stock negative fails and is rolled back as a whole.         *)
(***************************************************************************)
C28_StockNeverNegative ==
    /\ [](\A p \in Products : stock[p] >= 0)
    /\ [][ /\ ( /\ request'.op \in {"purchase_destroy", "purchase_update"}
                /\ RevertGoesNegative(request'.id) )
              => request'.status \notin {200, 204}
           /\ ( /\ request'.op \in {"purchase_create_return", "purchase_update",
                                    "purchase_destroy"}
                /\ request'.status \notin {200, 201, 204} )
              => purchases' = purchases /\ stock' = stock
         ]_vars

\* The delete of a purchase failed because the stock does not hold what its
\* lines brought in; the purchase is still there.
C28_Witness ==
    /\ request.op = "purchase_destroy"
    /\ request.status = 500
    /\ RevertGoesNegative(request.id)

(***************************************************************************)
(* C30: in every state reachable by sale create, sale update, return_sale  *)
(* and sale delete, every return sale that still references an original    *)
(* sale has total_amount, discount_amount, tax_amount and final_amount     *)
(* equal to the negation of the original's current values.                 *)
(***************************************************************************)
C30_ReturnMirrorsOriginal ==
    \A i \in DOMAIN sales :
        (sales[i].is_return /\ sales[i].original_sale \in DOMAIN sales) =>
            LET orig == sales[sales[i].original_sale] IN
            /\ sales[i].total_amount    = 0 - orig.total_amount
            /\ sales[i].discount_amount = 0 - orig.discount_amount
            /\ sales[i].tax_amount      = 0 - orig.tax_amount
            /\ sales[i].final_amount    = 0 - orig.final_amount

====
